---------------------------- MODULE Spec2Model ----------------------------
(***************************************************************************)
(* url-query-cleaner: clean(url, filters) and untrack(url, opts) of        *)
(* src/lib.rs, together with the operations of the `url` crate that clean  *)
(* calls (Url::parse, query_pairs, set_query, to_string).                  *)
(*                                                                         *)
(* A string is a sequence of one-character strings.  A URL string is a     *)
(* sequence whose first element is the text up to the end of the authority *)
(* ("https://www.example.com"), taken as one token, followed by the        *)
(* characters of the path, the query and the fragment.                     *)
(***************************************************************************)
EXTENDS Naturals, Sequences, FiniteSets, TLC

VARIABLES url, filters, opts, result, pc

vars == <<url, filters, opts, result, pc>>

\* ------------------------------------------------------------------ bounds

\* Most raw parameters in the query of an input of clean.
MaxParams == 2
\* Most entries of a filter list handed to clean.
MaxFilters == 2
\* Most raw parameters in the query of an input of untrack.
MaxTrackParams == 2

\* ----------------------------------------------------------------- strings

\* The characters of a string literal, as a sequence.
Str(s) == [i \in 1..Len(s) |-> SubSeq(s, i, i)]

\* [T]::join(sep)
RECURSIVE join(_, _)
join(ss, sep) ==
    IF ss = <<>> THEN <<>>
    ELSE IF Len(ss) = 1 THEN Head(ss)
    ELSE Head(ss) \o sep \o join(Tail(ss), sep)

\* A filter that matches only the whole name.
starts_with_exact(name, filter) == name = filter

\* A filter that matches only when it is not empty.
starts_with_nonempty(name, filter) ==
    /\ filter # <<>>
    /\ Len(filter) <= Len(name)
    /\ SubSeq(name, 1, Len(filter)) = filter

\* str::starts_with
starts_with(name, filter) ==
    /\ Len(filter) <= Len(name)
    /\ SubSeq(name, 1, Len(filter)) = filter

\* The position of the first element of s in set cs, or Len(s) + 1.
RECURSIVE FindFirst(_, _, _)
FindFirst(s, cs, i) ==
    IF i > Len(s) THEN i
    ELSE IF s[i] \in cs THEN i
    ELSE FindFirst(s, cs, i + 1)

\* slice::split on one character: the pieces, empty ones included.
RECURSIVE split(_, _)
split(s, c) ==
    LET i == FindFirst(s, {c}, 1)
    IN  IF i > Len(s) THEN <<s>>
        ELSE <<SubSeq(s, 1, i - 1)>> \o split(SubSeq(s, i + 1, Len(s)), c)

\* --------------------------------------------------------- percent-encoding

\* The printable ASCII characters, 0x20 to 0x7E; the double quote, the
\* backslash and the backtick are the tokens "DQUOTE", "BACKSLASH", "BACKTICK".
Ascii ==
    Str(" !") \o <<"DQUOTE">> \o Str("#$%&'(") \o Str(")") \o Str("*+,-./")
        \o Str("0123456789:;<=>?@ABCDEFGHIJKLMNOPQRSTUVWXYZ[")
        \o <<"BACKSLASH">>
        \o Str("]^_") \o <<"BACKTICK">> \o Str("abcdefghijklmnopqrstuvwxyz{|}~")

HexUpper == Str("0123456789ABCDEF")
HexLower == Str("0123456789abcdef")

IsHex(c) == \E i \in 1..16 : HexUpper[i] = c \/ HexLower[i] = c
HexVal(c) == (CHOOSE i \in 1..16 : HexUpper[i] = c \/ HexLower[i] = c) - 1

\* The character of a decoded byte.  A byte outside the printable ASCII range
\* is not followed further: a lone byte above 0x7F becomes the replacement
\* character of the lossy UTF-8 decoding, a control byte the token "CTL".
Chr(b) ==
    IF b >= 32 /\ b <= 126 THEN Ascii[b - 31]
    ELSE IF b >= 128 THEN "U+FFFD"
    ELSE "CTL"

Ord(c) == (CHOOSE i \in 1..Len(Ascii) : Ascii[i] = c) + 31

\* percent_encoding::percent_decode: %XY with two hex digits is one byte,
\* everything else is copied.
RECURSIVE percent_decode(_)
percent_decode(s) ==
    IF s = <<>> THEN <<>>
    ELSE IF /\ s[1] = "%"
            /\ Len(s) >= 3
            /\ IsHex(s[2])
            /\ IsHex(s[3])
         THEN <<Chr(16 * HexVal(s[2]) + HexVal(s[3]))>>
                  \o percent_decode(SubSeq(s, 4, Len(s)))
         ELSE <<s[1]>> \o percent_decode(Tail(s))

\* percent_encoding::percent_encode: a character of the set becomes %XY
\* (upper-case hex), every other printable ASCII character is copied.
RECURSIVE percent_encode(_, _)
percent_encode(s, set) ==
    IF s = <<>> THEN <<>>
    ELSE (IF s[1] \in set
          THEN <<"%", HexUpper[(Ord(s[1]) \div 16) + 1], HexUpper[(Ord(s[1]) % 16) + 1]>>
          ELSE <<s[1]>>)
         \o percent_encode(Tail(s), set)

\* url::parser::SPECIAL_QUERY, FRAGMENT and PATH (their printable members).
SPECIAL_QUERY == {" ", "DQUOTE", "#", "<", ">", "'"}
FRAGMENT == {" ", "DQUOTE", "<", ">", "BACKTICK"}
PATH == {" ", "DQUOTE", "#", "<", ">", "?", "BACKTICK", "{", "}"}

\* --------------------------------------------------------------------- Url

None == [some |-> FALSE, v |-> <<>>]
Some(s) == [some |-> TRUE, v |-> s]

Ok(s) == [ok |-> TRUE, val |-> s, err |-> ""]
Err(e) == [ok |-> FALSE, val |-> <<>>, err |-> e]

\* The text up to the end of the authority, and what Url::parse says of it.
Origin == "https://www.example.com"
OriginError ==
    [o \in {"http://[:::1]", "www.example.com", "https://"} |->
        CASE o = "http://[:::1]" -> "InvalidIpv6Address"
          [] o = "www.example.com" -> "RelativeUrlWithoutBase"
          [] o = "https://" -> "EmptyHost"]

\* Url::parse: the path runs to the first '?' or '#' (an empty path of a
\* special scheme is "/"), the query from '?' to the first '#', the fragment
\* from '#' to the end; each part is percent-encoded with its own set.
Url_parse(u) ==
    IF u[1] \in DOMAIN OriginError THEN [ok |-> FALSE, err |-> OriginError[u[1]]]
    ELSE
    LET rest == Tail(u)
        p    == FindFirst(rest, {"?", "#"}, 1)
        path == SubSeq(rest, 1, p - 1)
        h    == FindFirst(rest, {"#"}, 1)
    IN  [ok |-> TRUE,
         origin |-> u[1],
         path |-> IF path = <<>> THEN <<"/">> ELSE percent_encode(path, PATH),
         query |-> IF p <= Len(rest) /\ rest[p] = "?"
                   THEN Some(percent_encode(SubSeq(rest, p + 1, h - 1), SPECIAL_QUERY))
                   ELSE None,
         fragment |-> IF h <= Len(rest)
                      THEN Some(percent_encode(SubSeq(rest, h + 1, Len(rest)), FRAGMENT))
                      ELSE None]

\* Url::to_string: the serialization of the parts.
to_string(uri) ==
    <<uri.origin>> \o uri.path
        \o (IF uri.query.some THEN <<"?">> \o uri.query.v ELSE <<>>)
        \o (IF uri.fragment.some THEN <<"#">> \o uri.fragment.v ELSE <<>>)

\* form_urlencoded::decode: '+' is a space, then percent-decoding.
decode(s) == percent_decode([i \in 1..Len(s) |-> IF s[i] = "+" THEN " " ELSE s[i]])

\* One name[=value] piece of a query: split at the first '='.
pair(piece) ==
    LET e == FindFirst(piece, {"="}, 1)
    IN  [name |-> decode(SubSeq(piece, 1, e - 1)),
         value |-> decode(SubSeq(piece, e + 1, Len(piece)))]

\* Url::query_pairs: the pieces between '&', empty pieces skipped, each
\* split at its first '=' and decoded.
query_pairs(uri) ==
    LET pieces == SelectSeq(split(IF uri.query.some THEN uri.query.v ELSE <<>>, "&"),
                            LAMBDA x : x # <<>>)
    IN  [i \in 1..Len(pieces) |-> pair(pieces[i])]

\* Url::set_query: None removes the query; Some(q) replaces it by q,
\* percent-encoded with the query set ('#' does not end it in a setter).
\* The path and the fragment are put back as they were.
set_query(uri, q) ==
    IF q.some
    THEN [uri EXCEPT !.query = Some(percent_encode(q.v, SPECIAL_QUERY))]
    ELSE [uri EXCEPT !.query = None]

\* ------------------------------------------------------------------- clean

\* Only the first filter of the list is looked at.
keep_first_only(p, f) == ~(f # <<>> /\ starts_with(p.name, f[1]))

\* The closure of the filter call: no filter is a prefix of the name.
keep(p, f) == ~\E i \in 1..Len(f) : starts_with(p.name, f[i])

\* uri.query_pairs().filter(...): the pairs clean retains, in order.
retained(uri, f) == SelectSeq(query_pairs(uri), LAMBDA p : keep(p, f))

\* format!("{}={}", name, value)
format(p) == p.name \o <<"=">> \o p.value

\* The local `query` of clean: the retained pairs, formatted and joined.
query(uri, f) ==
    LET r == retained(uri, f)
    IN  join([i \in 1..Len(r) |-> format(r[i])], <<"&">>)

\* The query is set whether or not it is empty.
cleaned_always_some(uri, f) == set_query(uri, Some(query(uri, f)))

\* The fragment is lost when the query is replaced.
cleaned_drops_fragment(uri, f) ==
    [(IF query(uri, f) = <<>>
      THEN set_query(uri, None)
      ELSE set_query(uri, Some(query(uri, f)))) EXCEPT !.fragment = None]

\* The parsed URL after the if/else on query.is_empty().
cleaned(uri, f) ==
    IF query(uri, f) = <<>>
    THEN set_query(uri, None)
    ELSE set_query(uri, Some(query(uri, f)))

\* A URL that does not parse is handed back as it came.
clean_or_input(u, f) ==
    LET parsed == Url_parse(u)
    IN  IF ~parsed.ok THEN Ok(u)
        ELSE Ok(to_string(cleaned(parsed, f)))

clean(u, f) ==
    LET parsed == Url_parse(u)
    IN  IF ~parsed.ok THEN Err(parsed.err)
        ELSE Ok(to_string(cleaned(parsed, f)))

\* ----------------------------------------------------------------- untrack

\* AllowedMarketingTracking: its seven flags, in the order of the struct.
Flags == <<"utm", "gclid", "gclsrc", "dclid", "fbclid", "mscklid", "zanpid">>

AllowedMarketingTracking == [{Flags[i] : i \in 1..Len(Flags)} -> BOOLEAN]

\* #[derive(Default)]: every flag false.
Default == [k \in {Flags[i] : i \in 1..Len(Flags)} |-> FALSE]

\* if !opts.marketing.<flag> { filters.push(<prefix>) }
push(allowed, prefix) == IF ~allowed THEN <<Str(prefix)>> ELSE <<>>

\* The gclsrc flag decides the gclid prefix too.
untrack_filters_swapped(o) ==
    push(o.utm, "utm_") \o push(o.gclsrc, "gclid") \o push(o.gclsrc, "gclsrc")
        \o push(o.dclid, "dclid") \o push(o.fbclid, "fbclid")
        \o push(o.mscklid, "mscklid") \o push(o.zanpid, "zanpid")

\* The local `filters` of untrack once the seven ifs have run.
untrack_filters(o) ==
    push(o.utm, "utm_") \o push(o.gclid, "gclid") \o push(o.gclsrc, "gclsrc")
        \o push(o.dclid, "dclid") \o push(o.fbclid, "fbclid")
        \o push(o.mscklid, "mscklid") \o push(o.zanpid, "zanpid")

untrack(u, o) == clean(u, untrack_filters(o))

\* ------------------------------------------------------------------ inputs

\* All sequences over S of length at most n.
SeqsUpTo(S, n) == UNION {[1..k -> S] : k \in 0..n}

\* Raw name[=value] pieces of an input query: a name without '=', names one
\* a prefix of the other, another case, a percent-encoded name, a value with
\* an encoded '&' and an '=', a value of '+' and an encoded '#', and the
\* empty piece.
RawParams ==
    {Str("a"), Str("ab=1"), Str("abc=2"), Str("Ab=1"), Str("%61b=3"),
     Str("b=%26ab=1"), Str("c=+%23"), <<>>}

FilterStrings == {<<>>, Str("ab"), Str("b")}

FilterLists == SeqsUpTo(FilterStrings, MaxFilters)

Paths == {<<>>, Str("/p")}
Fragments == {<<>>, Str("#f?x")}

\* The input strings of clean: those the parser refuses, and every
\* combination of a path, an optional query and an optional fragment.
BadUrls == {<<o, "/">> : o \in DOMAIN OriginError}

Queries(params, n) ==
    {<<>>} \cup {<<"?">> \o join(ps, <<"&">>) : ps \in SeqsUpTo(params, n)}

Urls ==
    BadUrls \cup
    {<<Origin>> \o p \o q \o f :
        p \in Paths, q \in Queries(RawParams, MaxParams), f \in Fragments}

\* The inputs of untrack: one parameter of each tracker family, two that
\* belong to none, and the fragment of the crate's own test.
TrackParams ==
    {Str("utm_c=1"), Str("utm=0"), Str("gclid=2"), Str("gclsrc=3"), Str("dclid=4"),
     Str("fbclid=5"), Str("mscklid=6"), Str("zanpid=7"), Str("name=f")}

TrackUrls ==
    {<<"http://[:::1]", "/">>, <<Origin>> \o Str("/?utm_c=1&name=f&gclid=2#dope")} \cup
    {<<Origin, "/">> \o q : q \in Queries(TrackParams, MaxTrackParams)}

\* ----------------------------------------------------------- state machine

NoResult == Err("")

\* A caller about to call clean(url, filters).
Init ==
    /\ url \in Urls
    /\ filters \in FilterLists
    /\ opts = Default
    /\ result = NoResult
    /\ pc = "ready"

\* clean(url, filters)
CallClean ==
    /\ pc = "ready"
    /\ result' = clean(url, filters)
    /\ pc' = "cleaned"
    /\ UNCHANGED <<url, filters, opts>>

\* The caller hands the URL it got back to clean, with the same filters.
Reclean ==
    /\ pc = "cleaned"
    /\ result.ok
    /\ url' = result.val
    /\ result' = clean(result.val, filters)
    /\ pc' = "recleaned"
    /\ UNCHANGED <<filters, opts>>

Next == CallClean \/ Reclean

Spec == Init /\ [][Next]_vars

\* A caller about to call untrack(url, opts).
InitUntrack ==
    /\ url \in TrackUrls
    /\ filters = <<>>
    /\ opts \in AllowedMarketingTracking
    /\ result = NoResult
    /\ pc = "ready"

\* untrack(url, opts): filters is the list it builds and hands to clean.
CallUntrack ==
    /\ pc = "ready"
    /\ filters' = untrack_filters(opts)
    /\ result' = untrack(url, opts)
    /\ pc' = "untracked"
    /\ UNCHANGED <<url, opts>>

NextUntrack == CallUntrack

SpecUntrack == InitUntrack /\ [][NextUntrack]_vars

\* Either caller: clean on the inputs of either, untrack likewise.
InitBoth == Init \/ InitUntrack

NextBoth == CallClean \/ Reclean \/ CallUntrack

SpecBoth == InitBoth /\ [][NextBoth]_vars

\* ------------------------------------------------------ terms of the claims

\* The parsed input of the call that has returned.
Input == Url_parse(url)

\* The parsed output of the call that has returned.
Output == Url_parse(result.val)

Returned == pc = "cleaned" /\ result.ok

\* f is a prefix of name, character by character.
IsPrefix(f, name) ==
    /\ Len(f) <= Len(name)
    /\ \A j \in 1..Len(f) : name[j] = f[j]

\* The pairs of ps whose name has no entry of fs as a prefix.
Wanted(ps, fs) ==
    SelectSeq(ps, LAMBDA p : \A k \in 1..Len(fs) : ~IsPrefix(fs[k], p.name))

\* The pairs written name=value and joined by '&'.
Written(ps) == join([i \in 1..Len(ps) |-> ps[i].name \o <<"=">> \o ps[i].value], <<"&">>)

Names(ps) == {ps[i].name : i \in 1..Len(ps)}

Elems(s) == {s[i] : i \in 1..Len(s)}

\* s is a subsequence of t.
RECURSIVE IsSubseq(_, _)
IsSubseq(s, t) ==
    IF s = <<>> THEN TRUE
    ELSE IF t = <<>> THEN FALSE
    ELSE IF Head(s) = Head(t) THEN IsSubseq(Tail(s), Tail(t))
    ELSE IsSubseq(s, Tail(t))

\* The text of a URL string before its fragment.
BeforeFragment(u) == SubSeq(u, 1, FindFirst(u, {"#"}, 1) - 1)

\* ------------------------------------------------------------------ claims

\* C1: clean keeps a query parameter if and only if its decoded name starts
\* with no string of the filter list (case-sensitive prefix matching): the
\* pairs it writes to the output are exactly those pairs of the input, in
\* order, and the output has no query when there is none.
C1_PrefixFilter ==
    Returned =>
        LET w == Wanted(query_pairs(Input), filters)
        IN  /\ retained(Input, filters) = w
            /\ Output.query =
                 IF w = <<>> THEN None
                 ELSE Some(percent_encode(Written(w), SPECIAL_QUERY))

\* C1 witness: with filter "ab", "abc" is removed and "a" is kept, as "ab"
\* is removed from the same URL with "ab" in the place of "abc".
C1_Witness ==
    /\ pc = "cleaned"
    /\ url = <<Origin>> \o Str("?a&abc=2")
    /\ filters = <<Str("ab")>>
    /\ result = Ok(<<Origin>> \o Str("/?a="))
    /\ clean(<<Origin>> \o Str("?a&ab=1"), filters) = result

\* C2: the query of the output is the retained parameters, in their order,
\* duplicates included, none merged, dropped or altered: read back, the
\* output has exactly the (name, value) pairs clean retained.
C2_OutputIsRetained ==
    Returned => query_pairs(Output) = retained(Input, filters)

C4_FramePreserved ==
    Returned =>
        /\ Output.origin = Input.origin
        /\ Output.path = Input.path
        /\ Output.fragment = Input.fragment
        /\ result.val =
             <<Input.origin>> \o Input.path
                 \o SubSeq(BeforeFragment(result.val),
                           2 + Len(Input.path), Len(BeforeFragment(result.val)))
                 \o (IF Input.fragment.some THEN <<"#">> \o Input.fragment.v ELSE <<>>)

\* C4 witness: one of two parameters is removed from a URL with a path and
\* a fragment.
C4_Witness ==
    /\ pc = "cleaned"
    /\ url = <<Origin>> \o Str("/p?ab=1&c=+%23#f?x")
    /\ filters = <<Str("ab")>>
    /\ result = Ok(<<Origin>> \o Str("/p?c=%20%23#f?x"))

\* C5: clean and untrack return an error exactly when the URL does not
\* parse, and the error is the parser's own.
C5_ErrorIffParseFails ==
    pc \in {"cleaned", "untracked"} =>
        /\ result.ok <=> Input.ok
        /\ ~Input.ok => result = Err(Input.err)
        /\ ~Input.ok => result.err \in {OriginError[o] : o \in DOMAIN OriginError}

\* C5 witness: untrack of the crate's invalid_url test has returned the
\* parser's error.
C5_Witness ==
    /\ pc = "untracked"
    /\ url = <<"http://[:::1]", "/">>
    /\ result = Err("InvalidIpv6Address")

\* C6: when no filter matches a parameter name, clean returns the parser's
\* reserialization of the input.
C6_NoMatchIsReserialization ==
    Returned /\ retained(Input, filters) = query_pairs(Input) =>
        result.val = to_string(Input)

\* C7: with the entries of the filter list a subset of those of another
\* list, what clean retains with the other list is a subsequence of what it
\* retains with this one; lists with the same entries give the same result.
C7_Monotone ==
    Returned =>
        LET uri == Input
            r1  == retained(uri, filters)
        IN  \A f2 \in FilterLists :
                /\ Elems(filters) \subseteq Elems(f2) =>
                     LET r2 == retained(uri, f2)
                     IN  /\ IsSubseq(r2, r1)
                         /\ Names(r2) \subseteq Names(r1)
                /\ Elems(filters) = Elems(f2) => clean(url, f2) = result

\* C7 witness: the list <<"b", "ab">> has removed both parameters, where
\* the smaller list <<"ab">> removes one of them.
C7_Witness ==
    /\ pc = "cleaned"
    /\ url = <<Origin>> \o Str("/p?ab=1&b=%26ab=1")
    /\ filters = <<Str("b"), Str("ab")>>
    /\ result = Ok(<<Origin>> \o Str("/p"))
    /\ clean(url, <<Str("ab")>>) = Ok(<<Origin>> \o Str("/p?b=&ab=1"))

\* The prefix of each flag, in the order of the flags.
Prefix ==
    [utm |-> Str("utm_"), gclid |-> Str("gclid"), gclsrc |-> Str("gclsrc"),
     dclid |-> Str("dclid"), fbclid |-> Str("fbclid"), mscklid |-> Str("mscklid"),
     zanpid |-> Str("zanpid")]

\* The prefixes of the flags that are false, in the order of the flags.
FalsePrefixes(o) ==
    LET off == SelectSeq(Flags, LAMBDA k : ~o[k])
    IN  [i \in 1..Len(off) |-> Prefix[off[i]]]

\* C8: untrack(url, opts) is clean(url, F) with F the prefixes of the flags
\* that are false, in the order of the flags; a parameter of a family whose
\* flag is true stays in the output, and with every flag false no parameter
\* of any family does.
C8_UntrackIsClean ==
    pc = "untracked" =>
        /\ filters = FalsePrefixes(opts)
        /\ result = clean(url, FalsePrefixes(opts))
        /\ result.ok =>
             \A k \in DOMAIN Prefix :
                 LET fam(ps) == SelectSeq(ps, LAMBDA p : IsPrefix(Prefix[k], p.name))
                 IN  fam(query_pairs(Output)) =
                         IF opts[k] THEN fam(query_pairs(Input)) ELSE <<>>

\* C8 witness: the crate's test with the Google flags set: utm_ is removed,
\* gclid stays.
C8_Witness ==
    /\ pc = "untracked"
    /\ url = <<Origin>> \o Str("/?utm_c=1&gclid=2")
    /\ opts = [Default EXCEPT !.gclid = TRUE, !.gclsrc = TRUE]
    /\ result = Ok(<<Origin>> \o Str("/?gclid=2"))

\* C9: clean is idempotent for a fixed filter list: cleaning the output
\* again returns it unchanged, and no parameter of the output has a name
\* that starts with a filter.
C9_Idempotent ==
    /\ pc = "recleaned" => result = Ok(url)
    /\ Returned => retained(Output, filters) = query_pairs(Output)

\* C10: a filter list that holds the empty string removes every parameter,
\* and the output has no query component, whatever else the list holds.
C10_EmptyFilterRemovesAll ==
    Returned /\ <<>> \in Elems(filters) =>
        /\ retained(Input, filters) = <<>>
        /\ Output.query = None
        /\ result.val =
             <<Input.origin>> \o Input.path
                 \o (IF Input.fragment.some THEN <<"#">> \o Input.fragment.v ELSE <<>>)

\* C10 witness: the list <<"ab", "">> has removed a parameter that "ab"
\* does not match.
C10_Witness ==
    /\ pc = "cleaned"
    /\ url = <<Origin>> \o Str("/p?c=+%23&a")
    /\ filters = <<Str("ab"), <<>>>>
    /\ result = Ok(<<Origin>> \o Str("/p"))

=============================================================================
